---- MODULE Spec2Model ----
(***************************************************************************)
(* Model of src/main.py: the data loading layer (load_environment_data,    *)
(* load_growth_data, both under st.cache_data) and the aggregation done by *)
(* the three tabs of the dashboard script.                                 *)
(*                                                                         *)
(* Text is a sequence of code points.  A Hangul block is one composed code *)
(* point (NFC) or two decomposed ones (NFD):                               *)
(*   "SD" 송도  "HN" 하늘  "AR" 아라  "DS" 동산  "GO" 고                   *)
(*   "ENV" 환경데이터   "GRW" 생육결과데이터                               *)
(* every other code point ("_", "x", ".csv", ...) is ASCII and is left     *)
(* alone by both normalization forms.                                      *)
(***************************************************************************)
EXTENDS Integers, Sequences, FiniteSets, TLC

\* ---------------------------------------------------------------- bounds
MaxFiles == 2
MaxSheets == 2
MaxRuns == 2

\* ------------------------------------------------------- unicodedata model
Hangul == {"SD", "HN", "AR", "DS", "GO", "ENV", "GRW"}

Decomp(c) ==
    CASE c = "SD"  -> <<"sd1", "sd2">>
      [] c = "HN"  -> <<"hn1", "hn2">>
      [] c = "AR"  -> <<"ar1", "ar2">>
      [] c = "DS"  -> <<"ds1", "ds2">>
      [] c = "GO"  -> <<"go1", "go2">>
      [] c = "ENV" -> <<"env1", "env2">>
      [] c = "GRW" -> <<"grw1", "grw2">>
      [] OTHER     -> <<c>>

RECURSIVE NFD(_)
NFD(s) == IF s = <<>> THEN <<>> ELSE Decomp(Head(s)) \o NFD(Tail(s))

RECURSIVE Recompose(_)
Recompose(s) ==
    IF Len(s) < 2 THEN s
    ELSE IF \E c \in Hangul : Decomp(c) = <<s[1], s[2]>>
         THEN <<CHOOSE c \in Hangul : Decomp(c) = <<s[1], s[2]>>>>
                  \o Recompose(SubSeq(s, 3, Len(s)))
         ELSE <<s[1]>> \o Recompose(Tail(s))

NFC(s) == Recompose(NFD(s))

normalize_filename(filename) == [nfc |-> NFC(filename), nfd |-> NFD(filename)]

\* Python's `sub in s` on str
Contains(sub, s) ==
    \E i \in 1..(Len(s) - Len(sub) + 1) : SubSeq(s, i, i + Len(sub) - 1) = sub

\* pathlib's Path.suffix
Extensions == {".csv", ".xlsx", ".xls", ".txt"}
Suffix(name) ==
    IF Len(name) > 1 /\ name[Len(name)] \in Extensions THEN name[Len(name)] ELSE ""

\* ------------------------------------------------------------ configuration
schools == <<"Songdo", "Haneul", "Ara", "Dongsan">>
Sites == {schools[i] : i \in 1..Len(schools)}

SchoolName(s) ==
    CASE s = "Songdo"  -> <<"SD", "GO">>
      [] s = "Haneul"  -> <<"HN", "GO">>
      [] s = "Ara"     -> <<"AR", "GO">>
      [] s = "Dongsan" -> <<"DS", "GO">>

EC_INFO ==
    [s \in Sites |->
        CASE s = "Songdo"  -> [ec |-> 1, type |-> "control"]
          [] s = "Haneul"  -> [ec |-> 2, type |-> "optimal"]
          [] s = "Ara"     -> [ec |-> 4, type |-> "high"]
          [] s = "Dongsan" -> [ec |-> 8, type |-> "high"]]

Order(s) == CHOOSE i \in 1..Len(schools) : schools[i] = s

EnvSuffix == <<"_", "ENV", ".csv">>
GrowthKey == <<"GRW">>

Range(q) == {q[i] : i \in 1..Len(q)}
EmptyMap == [x \in {} |-> 0]
None == "none"

\* ------------------------------------------------- load_environment_data
\* A directory entry: name, whether it is a regular file, whether pd.read_csv
\* parses it, and the header columns of the parsed table.
EnvCols == {"temperature", "humidity", "ph", "ec"}

pattern_nfc(school) == NFC(SchoolName(school)) \o EnvSuffix
pattern_nfd(school) == NFD(SchoolName(school)) \o EnvSuffix

\* line 56 with the normalization forms dropped: byte-for-byte comparison
FileMatchesRaw(name, school) ==
    name = pattern_nfc(school)

\* lines 55-56
FileMatches(name, school) ==
    LET n == normalize_filename(name)
    IN  \/ n.nfc = pattern_nfc(school)
        \/ n.nfd = pattern_nfd(school)
        \/ name = pattern_nfc(school)
        \/ name = pattern_nfd(school)

\* lines 52-63: the inner loop over data_dir.iterdir() for one school.
\* src is the index of the entry that was loaded (0: found stays False),
\* tried the indices whose read raised and were reported by st.warning.
RECURSIVE ScanFrom(_, _, _)
ScanFrom(d, school, i) ==
    IF i > Len(d) THEN [src |-> 0, tried |-> {}]
    ELSE IF d[i].isfile /\ Suffix(d[i].name) = ".csv" /\ FileMatches(d[i].name, school)
         THEN IF d[i].ok
              THEN [src |-> i, tried |-> {}]
              ELSE LET r == ScanFrom(d, school, i + 1)
                   IN  [src |-> r.src, tried |-> r.tried \cup {i}]
         ELSE ScanFrom(d, school, i + 1)

Diag(k, s) == [kind |-> k, site |-> s]

EnvResult(scan, d) ==
    LET ks == SelectSeq(schools, LAMBDA s : scan[s].src # 0)
    IN  [keys  |-> ks,
         tab   |-> [s \in Range(ks) |-> d[scan[s].src].cols],
         src   |-> [s \in Sites |-> scan[s].src],
         tried |-> [s \in Sites |-> scan[s].tried],
         diags |-> {Diag("loadfail", s) : s \in {t \in Sites : scan[t].tried # {}}}
                   \cup {Diag("notfound", s) : s \in {t \in Sites : scan[t].src = 0}}]

NoDirResult ==
    [keys  |-> <<>>,
     tab   |-> EmptyMap,
     src   |-> [s \in Sites |-> 0],
     tried |-> [s \in Sites |-> {}],
     diags |-> {Diag("nodir", "")}]

\* the loader without its try/except: the first read that raises ends the
\* whole load and nothing is returned
load_environment_data_abort(de, d) ==
    IF ~de THEN NoDirResult
    ELSE LET scan == [s \in Sites |-> ScanFrom(d, s, 1)]
         IN  IF \E s \in Sites : scan[s].tried # {}
             THEN [keys  |-> <<>>,
                   tab   |-> EmptyMap,
                   src   |-> [s \in Sites |-> 0],
                   tried |-> [s \in Sites |-> scan[s].tried],
                   diags |-> {}]
             ELSE EnvResult(scan, d)

\* lines 36-68; the body of the cached function
load_environment_data(de, d) ==
    IF ~de THEN NoDirResult
    ELSE EnvResult([s \in Sites |-> ScanFrom(d, s, 1)], d)

\* ------------------------------------------------------ load_growth_data
\* A sheet: its name and its DataFrame, n rows and a column of cells per header
\* present.  Missing marks an empty cell (NaN after pd.read_excel).
Missing == -1
GrowthCols == <<"fw", "leaf", "shoot">>   \* 생중량(g), 잎 수(장), 지상부 길이(mm)

\* lines 81-86: the first .xlsx/.xls entry whose normalized name holds the key
RECURSIVE FindXlsx(_, _)
FindXlsx(d, i) ==
    IF i > Len(d) THEN 0
    ELSE IF /\ d[i].isfile
            /\ Suffix(d[i].name) \in {".xlsx", ".xls"}
            /\ LET n == normalize_filename(d[i].name)
               IN  Contains(GrowthKey, n.nfc) \/ Contains(GrowthKey, n.nfd)
         THEN i
         ELSE FindXlsx(d, i + 1)

\* lines 98-101 without the break: every school is tested and the last
\* one whose name is in the sheet name keeps the sheet
MatchSchoolLast(sheet_name) ==
    LET hits == {i \in 1..Len(schools) : Contains(SchoolName(schools[i]), sheet_name)}
    IN  IF hits = {} THEN None
        ELSE schools[CHOOSE i \in hits : \A j \in hits : j <= i]

\* lines 98-101: the first school, in the order of the list, whose name is a
\* substring of the sheet name as stored
MatchSchool(sheet_name) ==
    LET hits == {i \in 1..Len(schools) : Contains(SchoolName(schools[i]), sheet_name)}
    IN  IF hits = {} THEN None
        ELSE schools[CHOOSE i \in hits : \A j \in hits : i <= j]

\* growth_data.setdefault(school, df): a school already present keeps the
\* sheet it got first
DictSetFirst(dct, k, v) ==
    [keys |-> IF k \in Range(dct.keys) THEN dct.keys ELSE Append(dct.keys, k),
     tab  |-> [x \in Range(dct.keys) \cup {k} |->
                  IF x \in Range(dct.keys) THEN dct.tab[x] ELSE v]]

\* growth_data[school] = df on an insertion-ordered dict
DictSet(dct, k, v) ==
    [keys |-> IF k \in Range(dct.keys) THEN dct.keys ELSE Append(dct.keys, k),
     tab  |-> [x \in Range(dct.keys) \cup {k} |-> IF x = k THEN v ELSE dct.tab[x]]]

EmptyDict == [keys |-> <<>>, tab |-> EmptyMap]

\* lines 92-103: the loop over xlsx.sheet_names inside the try.  fail is the
\* index of the sheet whose read raises (0: none; 1 also stands for
\* pd.ExcelFile raising); acc carries growth_data and, per sheet, the school it
\* was attributed to.
RECURSIVE ReadSheets(_, _, _, _)
ReadSheets(shs, i, fail, acc) ==
    IF i = fail THEN [acc EXCEPT !.failed = TRUE]
    ELSE IF i > Len(shs) THEN acc
    ELSE LET m == MatchSchool(shs[i].name)
         IN  ReadSheets(shs, i + 1, fail,
                [acc EXCEPT !.attrib = Append(@, m),
                            !.data = IF m = None THEN @ ELSE DictSet(@, m, shs[i].df)])

\* lines 71-105; the body of the cached function
load_growth_data(de, d, shs, fail) ==
    IF ~de THEN [data |-> EmptyDict, attrib |-> <<>>, failed |-> FALSE, diags |-> {}]
    ELSE IF FindXlsx(d, 1) = 0
    THEN [data |-> EmptyDict, attrib |-> <<>>, failed |-> FALSE,
          diags |-> {Diag("noxlsx", "")}]
    ELSE LET r == ReadSheets(shs, 1, fail,
                     [data |-> EmptyDict, attrib |-> <<>>, failed |-> FALSE])
         IN  [data |-> r.data, attrib |-> r.attrib, failed |-> r.failed,
              diags |-> IF r.failed THEN {Diag("growthfail", "")} ELSE {}]

\* --------------------------------------------------------- st.cache_data
NoCache == [set |-> FALSE]

\* a cache that never returns its entry
CacheMiss(cache) == FALSE

\* lines 35, 70: the function takes no argument, so there is one cache entry
CacheHit(cache) == cache.set
\* ------------------------------------------------------------ aggregation
\* A mean is the fraction num/den; den = 0 is NaN, what pandas' mean() gives
\* for a column with no non-missing cell.  Zero is the int literal 0.
NaN == [num |-> 0, den |-> 0]
Zero == [num |-> 0, den |-> 1]

RECURSIVE SumCells(_)
SumCells(col) ==
    IF col = <<>> THEN 0
    ELSE (IF Head(col) = Missing THEN 0 ELSE Head(col)) + SumCells(Tail(col))

Observed(col) == SelectSeq(col, LAMBDA c : c # Missing)

\* Series.mean(), skipna
Mean(col) == [num |-> SumCells(col), den |-> Len(Observed(col))]

\* float `>`: False whenever one side is NaN
Gt(a, b) == a.den # 0 /\ b.den # 0 /\ a.num * b.den > b.num * a.den

HasCol(df, c) == c \in DOMAIN df.cols

\* builtin max(iterable, key=...): the first item is kept until a later one
\* compares strictly greater
RECURSIVE PyMaxFrom(_, _, _, _)
PyMaxFrom(keys, val, i, best) ==
    IF i > Len(keys) THEN best
    ELSE PyMaxFrom(keys, val, i + 1, IF Gt(val[keys[i]], val[best]) THEN keys[i] ELSE best)

PyMax(keys, val) == PyMaxFrom(keys, val, 2, keys[1])

\* lines 394-397
AvgWeights(gd) ==
    LET ks == SelectSeq(gd.keys, LAMBDA s : HasCol(gd.tab[s], "fw"))
    IN  [keys |-> ks, val |-> [s \in Range(ks) |-> Mean(gd.tab[s].cols["fw"])]]

\* lines 438-452: one list per metric, one item per school of schools_list
Metrics(gd, schools_list) ==
    [c \in Range(GrowthCols) |->
        [i \in 1..Len(schools_list) |->
            LET df == gd.tab[schools_list[i]]
            IN  IF HasCol(df, c) THEN Mean(df.cols[c]) ELSE Zero]]

RECURSIVE SumRows(_, _)
SumRows(gd, ks) ==
    IF ks = <<>> THEN 0 ELSE gd.tab[Head(ks)].n + SumRows(gd, Tail(ks))

\* lines 163-164: df['temperature'], df['humidity'] on every table
Tab1KeyError(ed) ==
    \E s \in Range(ed.keys) : ~({"temperature", "humidity"} \subseteq ed.tab[s])

\* lines 182-192: all four columns on every table
Tab2KeyError(ed) ==
    \E s \in Range(ed.keys) : ~(EnvCols \subseteq ed.tab[s])
\* ------------------------------------------------ the files a run may find
File(nm, isf, okay, cs) == [name |-> nm, isfile |-> isf, ok |-> okay, cols |-> cs]

EnvEntries ==
    {File(pattern_nfc(s), TRUE, TRUE, EnvCols) : s \in Sites}
    \cup {File(NFD(pattern_nfc("Songdo")), TRUE, TRUE, EnvCols),
          File(NFD(pattern_nfc("Haneul")), TRUE, TRUE, EnvCols),
          File(NFD(pattern_nfc("Ara")), TRUE, TRUE, {"temperature", "humidity"}),
          File(NFD(pattern_nfc("Dongsan")), TRUE, TRUE, {"ph", "ec"}),
          File(pattern_nfc("Songdo"), TRUE, FALSE, {}),
          File(<<"x">> \o pattern_nfc("Haneul"), TRUE, TRUE, EnvCols),
          File(SchoolName("Songdo") \o <<"_", "ENV", "x", ".csv">>, TRUE, TRUE, EnvCols),
          File(pattern_nfc("Ara"), FALSE, FALSE, {})}

XlsxNames ==
    {<<"GRW", ".xlsx">>, NFD(<<"GRW", ".xlsx">>), <<"x", "GRW", ".xls">>, <<"x", ".xlsx">>}

Sheet(nm, rows, cs) == [name |-> nm, df |-> [n |-> rows, cols |-> cs]]

TableA == [fw |-> <<2>>, leaf |-> <<3>>, shoot |-> <<5>>]
TableB == [fw |-> <<1, 3>>, leaf |-> <<4, Missing>>, shoot |-> <<6, 6>>]
TableC == [fw |-> <<4>>, shoot |-> <<7>>]
TableD == [leaf |-> <<3>>]
TableE == [fw |-> <<Missing>>, leaf |-> <<Missing>>, shoot |-> <<Missing>>]

SheetEntries ==
    {Sheet(SchoolName("Songdo"), 2, TableB),
     Sheet(SchoolName("Songdo"), 1, TableD),
     Sheet(SchoolName("Haneul"), 1, TableA),
     Sheet(SchoolName("Haneul"), 1, TableE),
     Sheet(SchoolName("Ara"), 1, TableA),
     Sheet(SchoolName("Dongsan"), 1, TableC),
     Sheet(NFD(SchoolName("Haneul")), 1, TableA),
     Sheet(<<"x">> \o SchoolName("Haneul") \o <<"x">>, 1, TableC),
     Sheet(<<"x">>, 1, TableA),
     Sheet(SchoolName("Dongsan") \o <<"x">> \o SchoolName("Songdo"), 2, TableB)}

\* sequences over S of length at most n whose names are pairwise distinct
RECURSIVE SeqsUpTo(_, _)
SeqsUpTo(S, n) ==
    IF n = 0 THEN {<<>>}
    ELSE LET shorter == SeqsUpTo(S, n - 1)
         IN  shorter \cup
             {Append(q, e) : <<q, e>> \in
                 {p \in shorter \X S : \A i \in 1..Len(p[1]) : p[1][i].name # p[2].name}}

GoodCsv == File(pattern_nfc("Songdo"), TRUE, TRUE, EnvCols)

\* A data folder of csv files only, or one csv file and the workbook.  The
\* sheets after the one whose read raises are never looked at, so the read that
\* raises, if any, is that of the last sheet.
Disks ==
    {[dir |-> d, sheets |-> <<>>, failAt |-> 0] : d \in SeqsUpTo(EnvEntries, MaxFiles)}
    \cup {[dir |-> <<GoodCsv, File(<<"GRW", ".xlsx">>, TRUE, TRUE, {})>>,
           sheets |-> q, failAt |-> f] :
             <<q, f>> \in {p \in SeqsUpTo(SheetEntries, MaxSheets) \X (0..MaxSheets) :
                              p[2] \in {0, Len(p[1])}}}
    \cup {[dir |-> <<File(nm, TRUE, TRUE, {})>>, sheets |-> q, failAt |-> 0] :
             <<nm, q>> \in XlsxNames \X SeqsUpTo(SheetEntries, 1)}

\* ------------------------------------------------------------------ state
VARIABLES
    dirExists, dir, sheets, failAt,     \* the data folder on disk
    env_cache, growth_cache,            \* st.cache_data entries of the loaders
    env_reads, growth_reads,            \* times each loader body went to disk
    first_env, first_growth,            \* what each loader returned first
    changed,                            \* the disk changed since the session began
    pc, runs, error,                    \* position in the script, script runs
    env_data, growth_data,              \* lines 117-118
    env_res, growth_res,                \* resolver bookkeeping of the last load
    diags,                              \* st.error / st.warning shown in this run
    total_samples, env_stats,           \* tab 1, tab 2
    avg_weights, max_school, metrics, counts, conclusion   \* tab 3

diskVars == <<dirExists, dir, sheets, failAt>>
cacheVars == <<env_cache, growth_cache, env_reads, growth_reads, first_env, first_growth>>
dataVars == <<env_data, growth_data, env_res, growth_res>>
tab12Vars == <<total_samples, env_stats>>
tab3Vars == <<avg_weights, max_school, metrics, counts, conclusion>>
vars == <<diskVars, cacheVars, changed, pc, runs, error, dataVars, diags,
          tab12Vars, tab3Vars>>

Unset == [set |-> FALSE]

\* the outputs of the tabs before a run has computed them
NoOutputs ==
    [total_samples |-> 0,
     env_stats     |-> <<>>,
     avg_weights   |-> [keys |-> <<>>, val |-> EmptyMap],
     max_school    |-> None,
     metrics       |-> [c \in Range(GrowthCols) |-> <<>>],
     counts        |-> <<>>,
     conclusion    |-> Unset]

Init ==
    /\ dirExists \in BOOLEAN
    /\ \E k \in Disks :
          /\ dirExists \/ (k.dir = <<>> /\ k.sheets = <<>>)
          /\ dir = k.dir /\ sheets = k.sheets /\ failAt = k.failAt
    /\ env_cache = NoCache /\ growth_cache = NoCache
    /\ env_reads = 0 /\ growth_reads = 0
    /\ first_env = Unset /\ first_growth = Unset
    /\ changed = FALSE
    /\ pc = "load_env" /\ runs = 1 /\ error = ""
    /\ env_data = EmptyDict /\ growth_data = EmptyDict
    /\ env_res = Unset /\ growth_res = Unset
    /\ diags = {}
    /\ total_samples = NoOutputs.total_samples
    /\ env_stats = NoOutputs.env_stats
    /\ avg_weights = NoOutputs.avg_weights
    /\ max_school = NoOutputs.max_school
    /\ metrics = NoOutputs.metrics
    /\ counts = NoOutputs.counts
    /\ conclusion = NoOutputs.conclusion

\* ---------------------------------------------------------------- actions
\* line 117: env_data = load_environment_data(), through st.cache_data, which
\* on a hit returns the stored value and replays the stored messages
LoadEnvironmentData ==
    /\ pc = "load_env"
    /\ LET hit == CacheHit(env_cache)
           res == IF hit THEN env_cache.res ELSE load_environment_data(dirExists, dir)
           ed  == [keys |-> res.keys, tab |-> res.tab]
       IN  /\ env_cache' = IF hit THEN env_cache ELSE [set |-> TRUE, res |-> res]
           /\ env_reads' = IF hit THEN env_reads ELSE env_reads + 1
           /\ env_data' = ed
           /\ env_res' = [set |-> TRUE, res |-> res]
           /\ first_env' = IF first_env.set THEN first_env ELSE [set |-> TRUE, data |-> ed]
           /\ diags' = diags \cup res.diags
    /\ pc' = "load_growth"
    /\ UNCHANGED <<diskVars, growth_cache, growth_reads, first_growth, changed, runs,
                   error, growth_data, growth_res, tab12Vars, tab3Vars>>

\* line 118: growth_data = load_growth_data()
LoadGrowthData ==
    /\ pc = "load_growth"
    /\ LET hit == CacheHit(growth_cache)
           res == IF hit THEN growth_cache.res
                  ELSE load_growth_data(dirExists, dir, sheets, failAt)
       IN  /\ growth_cache' = IF hit THEN growth_cache ELSE [set |-> TRUE, res |-> res]
           /\ growth_reads' = IF hit THEN growth_reads ELSE growth_reads + 1
           /\ growth_data' = res.data
           /\ growth_res' = [set |-> TRUE, res |-> res]
           /\ first_growth' = IF first_growth.set THEN first_growth
                              ELSE [set |-> TRUE, data |-> res.data]
           /\ diags' = diags \cup res.diags
    /\ pc' = "tab1"
    /\ UNCHANGED <<diskVars, env_cache, env_reads, first_env, changed, runs, error,
                   env_data, env_res, tab12Vars, tab3Vars>>

\* lines 132-168
Tab1 ==
    /\ pc = "tab1"
    /\ IF env_data.keys # <<>> /\ Tab1KeyError(env_data)
       THEN /\ pc' = "crashed" /\ error' = "KeyError"
            /\ UNCHANGED total_samples
       ELSE /\ pc' = "tab2" /\ UNCHANGED error
            /\ total_samples' = SumRows(growth_data, growth_data.keys)
    /\ UNCHANGED <<diskVars, cacheVars, changed, runs, dataVars, diags, env_stats,
                   tab3Vars>>

\* lines 171-382
Tab2 ==
    /\ pc = "tab2"
    /\ IF env_data.keys = <<>>
       THEN /\ diags' = diags \cup {Diag("noenv", "")}
            /\ pc' = "tab3"
            /\ UNCHANGED <<env_stats, error>>
       ELSE IF Tab2KeyError(env_data)
       THEN /\ pc' = "crashed" /\ error' = "KeyError"
            /\ UNCHANGED <<env_stats, diags>>
       ELSE /\ env_stats' = env_data.keys
            /\ pc' = "tab3"
            /\ UNCHANGED <<diags, error>>
    /\ UNCHANGED <<diskVars, cacheVars, changed, runs, dataVars, total_samples,
                   tab3Vars>>

\* lines 385-618
Tab3 ==
    /\ pc = "tab3"
    /\ IF growth_data.keys = <<>>
       THEN /\ diags' = diags \cup {Diag("nogrowth", "")}
            /\ pc' = "done"
            /\ UNCHANGED <<tab3Vars, error>>
       ELSE LET aw == AvgWeights(growth_data)
            IN  IF aw.keys = <<>>
                THEN \* line 405: max() of an empty dict
                     /\ avg_weights' = aw
                     /\ pc' = "crashed" /\ error' = "ValueError"
                     /\ UNCHANGED <<max_school, metrics, counts, conclusion, diags>>
                ELSE LET best == PyMax(aw.keys, aw.val)
                     IN  /\ avg_weights' = aw
                         /\ max_school' = best
                         /\ metrics' = Metrics(growth_data, aw.keys)
                         /\ counts' = [i \in 1..Len(aw.keys) |-> growth_data.tab[aw.keys[i]].n]
                         /\ conclusion' =
                               [set |-> TRUE,
                                optimal_school |-> best,
                                optimal_ec |-> EC_INFO[best].ec,
                                max_weight |-> aw.val[best],
                                shown_school |-> "Haneul"]
                         /\ pc' = "done"
                         /\ UNCHANGED <<diags, error>>
    /\ UNCHANGED <<diskVars, cacheVars, changed, runs, dataVars, tab12Vars>>

\* a widget interaction: Streamlit runs the script again from the top
Rerun ==
    /\ pc \in {"done", "crashed"}
    /\ runs < MaxRuns
    /\ runs' = runs + 1
    /\ pc' = "load_env" /\ error' = ""
    /\ diags' = {}
    /\ env_data' = EmptyDict /\ growth_data' = EmptyDict
    /\ env_res' = Unset /\ growth_res' = Unset
    /\ total_samples' = NoOutputs.total_samples
    /\ env_stats' = NoOutputs.env_stats
    /\ avg_weights' = NoOutputs.avg_weights
    /\ max_school' = NoOutputs.max_school
    /\ metrics' = NoOutputs.metrics
    /\ counts' = NoOutputs.counts
    /\ conclusion' = NoOutputs.conclusion
    /\ UNCHANGED <<diskVars, cacheVars, changed>>

\* between two runs the data folder is removed from disk
RemoveDataDir ==
    /\ pc \in {"done", "crashed"}
    /\ runs < MaxRuns
    /\ dirExists
    /\ dirExists' = FALSE /\ dir' = <<>> /\ sheets' = <<>> /\ failAt' = 0
    /\ changed' = TRUE
    /\ UNCHANGED <<cacheVars, pc, runs, error, dataVars, diags, tab12Vars, tab3Vars>>

Next ==
    \/ LoadEnvironmentData
    \/ LoadGrowthData
    \/ Tab1
    \/ Tab2
    \/ Tab3
    \/ Rerun
    \/ RemoveDataDir

Spec == Init /\ [][Next]_vars
\* ----------------------------------------------------------------- claims
Ge(a, b) == a.num * b.den >= b.num * a.den

\* the disk still is what the loaders read
Loaded == env_res.set /\ ~changed /\ dirExists
GrowthLoaded == growth_res.set /\ ~changed /\ dirExists

\* the site named by a directory entry, by the full target name under NFC
NamesSite(f, s) ==
    f.isfile /\ Suffix(f.name) = ".csv" /\ NFC(f.name) = NFC(SchoolName(s) \o EnvSuffix)

\* C1: the best site by fresh weight is the site with the greatest mean fresh
\* weight and, among sites that tie for it, the first one in the order of
\* EC_INFO, whatever the order of the sheets in the workbook.
BestSiteCanonicalTieBreak ==
    (/\ pc = "done" /\ conclusion.set
     /\ \A s \in Range(avg_weights.keys) : avg_weights.val[s].den # 0)
    => /\ \A t \in Range(avg_weights.keys) :
             Ge(avg_weights.val[max_school], avg_weights.val[t])
       /\ \A t \in Range(avg_weights.keys) :
             Ge(avg_weights.val[t], avg_weights.val[max_school])
                => Order(max_school) <= Order(t)

\* C2: a readable .csv entry whose normalized name contains a site's
\* normalized target label (site name plus suffix), with decoration around it,
\* is resolved to that site and loaded.
DecoratedCsvResolved ==
    Loaded =>
        \A s \in Sites : \A i \in 1..Len(dir) :
            (/\ dir[i].isfile /\ dir[i].ok /\ Suffix(dir[i].name) = ".csv"
             /\ Contains(NFC(SchoolName(s) \o <<"_", "ENV">>), NFC(dir[i].name)))
            => s \in Range(env_data.keys)

\* C3: a file named from a site's target label is selected for that site
\* whether its name is stored composed (NFC) or decomposed (NFD): it is read,
\* unless an earlier entry was already loaded for the site; and the sites
\* resolved are the same when every name is stored in the other form.
WithNames(d, F(_)) == [i \in 1..Len(d) |-> [d[i] EXCEPT !.name = F(d[i].name)]]

NormalizationSymmetry ==
    (Loaded /\ pc = "load_growth") =>
        /\ \A s \in Sites : \A i \in 1..Len(dir) :
              (/\ dir[i].isfile
               /\ dir[i].name \in {pattern_nfc(s), NFD(pattern_nfc(s))})
              => \/ i \in env_res.res.tried[s]
                 \/ env_res.res.src[s] \in 1..i
        /\ load_environment_data(TRUE, WithNames(dir, NFD)).keys = env_data.keys
        /\ load_environment_data(TRUE, WithNames(dir, NFC)).keys = env_data.keys

\* C3 witness: a site was loaded from an entry stored in decomposed form
NfdFileLoaded ==
    /\ Loaded
    /\ \E s \in Sites :
          /\ env_res.res.src[s] # 0
          /\ dir[env_res.res.src[s]].name = NFD(pattern_nfc(s))
          /\ s \in Range(env_data.keys)

\* C4: a sheet whose name contains a site name is attributed to that site
\* whether the sheet name is stored in NFC or in NFD: the match is made between
\* the normalized site name and the normalized sheet name.
SheetMatchNormalized ==
    (GrowthLoaded /\ Len(growth_res.res.attrib) = Len(sheets)) =>
        \A i \in 1..Len(sheets) :
            growth_res.res.attrib[i] = MatchSchool(NFC(sheets[i].name))

\* C5: every sheet read is attributed to at most one site, the first site in
\* the order of the configuration whose name is a substring of the sheet name;
\* a sheet that names no site gives no records to any site and raises no error.
MatchedOnly(shs) ==
    SelectSeq(shs, LAMBDA sh : \E s \in Sites : Contains(SchoolName(s), sh.name))

FirstMatchInCanonicalOrder ==
    (GrowthLoaded /\ pc = "tab1") =>
        LET r == growth_res.res
        IN  /\ \A i \in 1..Len(r.attrib) :
                  LET hits == {s \in Sites : Contains(SchoolName(s), sheets[i].name)}
                  IN  IF hits = {} THEN r.attrib[i] = None
                      ELSE /\ r.attrib[i] \in hits
                           /\ \A t \in hits : Order(r.attrib[i]) <= Order(t)
            /\ Range(r.data.keys) = Range(r.attrib) \ {None}
            /\ \A s \in Range(r.data.keys) :
                  \E i \in 1..Len(r.attrib) :
                      r.attrib[i] = s /\ r.data.tab[s] = sheets[i].df
            /\ r.failed => failAt # 0
            /\ failAt = 0 =>
                  load_growth_data(TRUE, dir, MatchedOnly(sheets), 0).data = growth_data

\* C5 witness: one sheet names two sites and went to the first of them in the
\* order of the configuration, another sheet names none and was skipped
AmbiguousAndUnmatchedSheets ==
    /\ GrowthLoaded
    /\ \E i, j \in 1..Len(growth_res.res.attrib) :
          /\ growth_res.res.attrib[i] = "Songdo"
          /\ Contains(SchoolName("Dongsan"), sheets[i].name)
          /\ growth_res.res.attrib[j] = None
    /\ growth_data.keys = <<"Songdo">>
    /\ ~growth_res.res.failed

NotFoundOnlyWhenNoMatch ==
    Loaded =>
        \A s \in Sites :
            Diag("notfound", s) \in diags
            => ~\E i \in 1..Len(dir) : NamesSite(dir[i], s)

\* C8: no run ends in an unhandled exception, whatever files, sheets and
\* columns are present.
NoUnhandledException == pc # "crashed"

\* C9: when a site has no non-missing observation of a growth field (the
\* column may be absent from its sheet), the per-site mean of that field is
\* the 'no data' value and never the number 0.
NoDataNeverZero ==
    (pc = "done" /\ conclusion.set) =>
        \A c \in Range(GrowthCols) : \A i \in 1..Len(avg_weights.keys) :
            LET df == growth_data.tab[avg_weights.keys[i]]
            IN  (~HasCol(df, c) \/ Observed(df.cols[c]) = <<>>)
                => metrics[c][i] = NaN

\* C10: once a loader has completed in the session, every later invocation
\* with the files on disk unchanged returns the dataset it returned first and
\* does not go to disk again.
LoadIdempotence ==
    ~changed =>
        /\ env_reads <= 1 /\ growth_reads <= 1
        /\ (first_env.set /\ pc # "load_env") => env_data = first_env.data
        /\ (first_growth.set /\ pc \notin {"load_env", "load_growth"})
              => growth_data = first_growth.data
        /\ (runs > 1 /\ pc # "load_env") => env_cache.set /\ env_reads = 1

\* C10 witness: a second run has called both loaders on the unchanged folder
\* and holds the non-empty datasets of the first run
SecondRunServedFromCache ==
    /\ runs = 2 /\ pc = "tab1" /\ ~changed
    /\ env_data.keys # <<>> /\ growth_data.keys # <<>>
    /\ env_data = first_env.data /\ growth_data = first_growth.data
    /\ env_reads = 1 /\ growth_reads = 1

\* C11: after load_growth_data every site in the result holds the content of
\* exactly one sheet attributed to it; when several sheets were attributed to
\* the same site, it is the last of them in workbook order, which replaces the
\* earlier ones: they are neither merged with it nor a cause of failure.
SheetsOf(r, s) == {i \in 1..Len(r.attrib) : r.attrib[i] = s}

LastSheetReplaces ==
    (GrowthLoaded /\ pc = "tab1") =>
        LET r == growth_res.res
        IN  /\ \A s \in Range(growth_data.keys) :
                  /\ SheetsOf(r, s) # {}
                  /\ LET last == CHOOSE i \in SheetsOf(r, s) : \A j \in SheetsOf(r, s) : j <= i
                     IN  growth_data.tab[s] = sheets[last].df
            /\ \A s \in Sites : SheetsOf(r, s) # {} => s \in Range(growth_data.keys)
            /\ \A i, j \in 1..Len(growth_data.keys) :
                  growth_data.keys[i] = growth_data.keys[j] => i = j
            /\ r.failed => failAt # 0

\* C11 witness: two sheets with different content were attributed to one site
\* and the site holds the content of the later one
TwoSheetsOneSite ==
    /\ GrowthLoaded /\ pc = "tab1" /\ ~growth_res.res.failed
    /\ \E s \in Range(growth_data.keys) : \E i, j \in SheetsOf(growth_res.res, s) :
          /\ i < j
          /\ sheets[i].df # sheets[j].df
          /\ growth_data.tab[s] = sheets[j].df

\* C12: the site named as optimal in the conclusion is the computed best site
\* (optimal_school), and the optimal EC shown beside it is that site's target
\* EC.
ConclusionNamesBestSite ==
    conclusion.set =>
        /\ conclusion.shown_school = conclusion.optimal_school
        /\ conclusion.optimal_school = max_school
        /\ conclusion.optimal_ec = EC_INFO[conclusion.shown_school].ec
====
